---- MODULE Spec2Model ----
(***************************************************************************)
(* Model of yearly_tenders_report.py: the consolidated yearly tenders      *)
(* report.  main() lists the location folders, runs process_prefix on each *)
(* in sorted order, accumulating rows in all_rows, and uploads one CSV.    *)
(*                                                                         *)
(* Text is modelled as a sequence of one-character strings, so that        *)
(* splitting, trimming, case folding and lexicographic order are computed. *)
(* Amounts are whole currency units (integers).                            *)
(***************************************************************************)
EXTENDS Integers, Sequences, FiniteSets, TLC

VARIABLES
    pc,         \* position of the running program
    listing,    \* the CommonPrefixes keys the object store will return, in order
    prefixes,   \* main: prefixes collected from the pages read so far
    all_rows,   \* main: the shared row accumulator
    processed,  \* locations handed to process_prefix so far, in call order
    puts,       \* bodies handed to s3.put_object, in call order
    uploaded,   \* bodies the object store accepted
    call,       \* inputs and outcome of the latest process_prefix call
    ini,        \* inputs and outcome of the latest extract_ini_value call
    win         \* inputs and outcome of the latest window filter evaluation

vars == <<pc, listing, prefixes, all_rows, processed, puts, uploaded, call, ini, win>>

----------------------------------------------------------------------------
(* Text helpers: Python str operations on sequences of characters.         *)

Digits == <<"0", "1", "2", "3", "4", "5", "6", "7", "8", "9">>

UpperCase == <<"A", "B", "C", "D", "E", "F", "G", "H", "I", "J", "K", "L", "M",
               "N", "O", "P", "Q", "R", "S", "T", "U", "V", "W", "X", "Y", "Z">>

LowerCase == <<"a", "b", "c", "d", "e", "f", "g", "h", "i", "j", "k", "l", "m",
               "n", "o", "p", "q", "r", "s", "t", "u", "v", "w", "x", "y", "z">>

\* Characters in ascending code point order (the part of ASCII the model uses).
CodePoints == <<"\t", "\n", "\r", " ", "\"", "-", "/">> \o Digits \o <<"=">>
                  \o UpperCase \o <<"_">> \o LowerCase

OrdTable ==
    [c \in {CodePoints[i] : i \in 1..Len(CodePoints)} |->
        CHOOSE i \in 1..Len(CodePoints) : CodePoints[i] = c]

Ord(c) == OrdTable[c]

\* str.lower() on one character.
LowerTable ==
    [c \in {UpperCase[i] : i \in 1..Len(UpperCase)} |->
        LowerCase[CHOOSE i \in 1..Len(UpperCase) : UpperCase[i] = c]]

LowerChar(c) == IF c \in DOMAIN LowerTable THEN LowerTable[c] ELSE c

\* str.lower()
Lower(s) == [i \in 1..Len(s) |-> LowerChar(s[i])]

Whitespace == {" ", "\t", "\n", "\r"}

\* The first index from i on where s holds a character of chars; 0 if none.
RECURSIVE IndexFrom(_, _, _)
IndexFrom(s, chars, i) ==
    IF i > Len(s) THEN 0
    ELSE IF s[i] \in chars THEN i
    ELSE IndexFrom(s, chars, i + 1)

\* The first index from i on where s holds no whitespace; Len(s) + 1 if none.
RECURSIVE SkipLeft(_, _)
SkipLeft(s, i) ==
    IF i <= Len(s) /\ s[i] \in Whitespace THEN SkipLeft(s, i + 1) ELSE i

\* The last index up to i where s holds no whitespace; 0 if none.
RECURSIVE SkipRight(_, _)
SkipRight(s, i) ==
    IF i >= 1 /\ s[i] \in Whitespace THEN SkipRight(s, i - 1) ELSE i

\* str.strip()
Strip(s) == SubSeq(s, SkipLeft(s, 1), SkipRight(s, Len(s)))

\* str.splitlines(): lines end at "\n", "\r" or "\r\n"; no empty last line.
RECURSIVE SplitLines(_)
SplitLines(s) ==
    IF s = <<>> THEN <<>>
    ELSE LET i == IndexFrom(s, {"\n", "\r"}, 1) IN
         IF i = 0 THEN <<s>>
         ELSE LET next == IF s[i] = "\r" /\ i < Len(s) /\ s[i + 1] = "\n"
                          THEN i + 2 ELSE i + 1
              IN  <<SubSeq(s, 1, i - 1)>> \o SplitLines(SubSeq(s, next, Len(s)))

\* sep in s
Contains(s, sep) == IndexFrom(s, {sep}, 1) # 0

\* s.split(sep, 1) for a one-character sep that occurs in s
SplitFirst(s, sep) ==
    LET i == IndexFrom(s, {sep}, 1)
    IN  <<SubSeq(s, 1, i - 1), SubSeq(s, i + 1, Len(s))>>

\* s.split(sep) for a one-character sep
RECURSIVE SplitAll(_, _)
SplitAll(s, sep) ==
    LET i == IndexFrom(s, {sep}, 1) IN
    IF i = 0 THEN <<s>>
    ELSE <<SubSeq(s, 1, i - 1)>> \o SplitAll(SubSeq(s, i + 1, Len(s)), sep)

\* Python's str "<": lexicographic by code point, a proper prefix is smaller.
RECURSIVE StrLess(_, _)
StrLess(a, b) ==
    IF b = <<>> THEN FALSE
    ELSE IF a = <<>> THEN TRUE
    ELSE IF Head(a) # Head(b) THEN Ord(Head(a)) < Ord(Head(b))
    ELSE StrLess(Tail(a), Tail(b))

\* f'"{s}"'
Quoted(s) == <<"\"">> \o s \o <<"\"">>

----------------------------------------------------------------------------
(* extract_ini_value                                                       *)

\* Outcomes of s3.get_object on the config blob.
NoSuchKey == [kind |-> "NoSuchKey"]
ClientError == [kind |-> "ClientError"]
Blob(content) == [kind |-> "ok", content |-> content]

\* f'"Unknown{target}"'
UnknownValue(target) == Quoted(<<"U", "n", "k", "n", "o", "w", "n">> \o target)

\* The loop without its early return: the last matching line wins.
RECURSIVE ScanIniLines_last_wins(_, _)
ScanIniLines_last_wins(lines, target) ==
    IF lines = <<>> THEN UnknownValue(target)
    ELSE LET line == lines[Len(lines)] IN
         IF Contains(line, "=") /\ Lower(Strip(SplitFirst(line, "=")[1])) = Lower(target)
         THEN Quoted(Strip(SplitFirst(line, "=")[2]))
         ELSE ScanIniLines_last_wins(SubSeq(lines, 1, Len(lines) - 1), target)

\* The for loop over content.splitlines(): the first matching line returns.
RECURSIVE ScanIniLines(_, _)
ScanIniLines(lines, target) ==
    IF lines = <<>> THEN UnknownValue(target)
    ELSE LET line == Head(lines) IN
         IF Contains(line, "=")
         THEN LET kv == SplitFirst(line, "=") IN
              IF Lower(Strip(kv[1])) = Lower(target)
              THEN Quoted(Strip(kv[2]))
              ELSE ScanIniLines(Tail(lines), target)
         ELSE ScanIniLines(Tail(lines), target)

\* extract_ini_value with "except Exception" for "except NoSuchKey": every
\* fetch error gives the missing-key value.
extract_ini_value_catch_all(fetch, target) ==
    IF fetch.kind = "ok"
    THEN [raised |-> FALSE, value |-> ScanIniLines(SplitLines(fetch.content), target)]
    ELSE [raised |-> FALSE, value |-> UnknownValue(target)]

\* extract_ini_value(prefix, target), given what get_object does for the
\* location's spirits.ini: a returned value, or the exception left uncaught.
extract_ini_value(fetch, target) ==
    CASE fetch.kind = "ok" ->
            [raised |-> FALSE, value |-> ScanIniLines(SplitLines(fetch.content), target)]
      [] fetch.kind = "NoSuchKey" ->
            [raised |-> FALSE, value |-> UnknownValue(target)]
      [] OTHER ->
            [raised |-> TRUE, value |-> <<>>]

----------------------------------------------------------------------------
(* Numbers and dates: pd.to_numeric, pd.to_datetime and the calendar.      *)

\* A float column value: a number or NaN.
NaN == [nan |-> TRUE, v |-> 0]
Num(n) == [nan |-> FALSE, v |-> n]

IsDigit(c) == \E i \in 1..Len(Digits) : Digits[i] = c
DigitValue(c) == (CHOOSE i \in 1..Len(Digits) : Digits[i] = c) - 1

RECURSIVE ParseDigits(_, _)
ParseDigits(s, acc) ==
    IF s = <<>> THEN acc ELSE ParseDigits(Tail(s), 10 * acc + DigitValue(Head(s)))

AllDigits(s) == s # <<>> /\ \A i \in 1..Len(s) : IsDigit(s[i])

\* pd.to_numeric(text, errors="coerce") for whole amounts: an optional sign
\* and digits give the number, anything else (the empty text too) gives NaN.
to_numeric(text) ==
    IF AllDigits(text) THEN Num(ParseDigits(text, 0))
    ELSE IF text # <<>> /\ Head(text) = "-" /\ AllDigits(Tail(text))
         THEN Num(0 - ParseDigits(Tail(text), 0))
    ELSE IF text # <<>> /\ Head(text) = "+" /\ AllDigits(Tail(text))
         THEN Num(ParseDigits(Tail(text), 0))
    ELSE NaN

\* .fillna(0)
fillna(x, dflt) == IF x.nan THEN dflt ELSE x.v

IsLeap(y) == (y % 4 = 0 /\ y % 100 # 0) \/ y % 400 = 0

DaysInMonth(y, m) ==
    IF m = 2 THEN (IF IsLeap(y) THEN 29 ELSE 28)
    ELSE IF m \in {4, 6, 9, 11} THEN 30
    ELSE 31

\* A timestamp: calendar date and hour of day.  NaT is the null timestamp.
NaT == [y |-> 0, m |-> 0, d |-> 0, h |-> 0]
IsNaT(ts) == ts.y = 0

\* pd.to_datetime(text, errors="coerce").  A DATE text is given by the numbers
\* written in it, <<year, month, day, hour>>, or is empty; text that names no
\* day of the calendar gives NaT.
to_datetime(text) ==
    IF /\ Len(text) = 4
       /\ text[1] \in 1678..2261
       /\ text[2] \in 1..12
       /\ text[3] \in 1..DaysInMonth(text[1], text[2])
       /\ text[4] \in 0..23
    THEN [y |-> text[1], m |-> text[2], d |-> text[3], h |-> text[4]]
    ELSE NaT

\* The timestamp compared as it is, .date() and .dt.date left out: the time
\* of day of the row and of today takes part in the comparison.
DateOf_with_time(ts) == <<ts.y, ts.m, ts.d * 24 + ts.h>>

\* .date() / .dt.date: the calendar date, the time of day dropped.
DateOf(ts) == <<ts.y, ts.m, ts.d>>

\* datetime.date "<=".
DateLE(a, b) ==
    \/ a[1] < b[1]
    \/ a[1] = b[1] /\ a[2] < b[2]
    \/ a[1] = b[1] /\ a[2] = b[2] /\ a[3] <= b[3]

Min(a, b) == IF a <= b THEN a ELSE b

\* ts - pd.DateOffset(months=n): the month moved back, the day clipped to the
\* length of the month reached, the time of day kept.
MinusMonths(ts, n) ==
    LET total == ts.y * 12 + (ts.m - 1) - n
        yy == total \div 12
        mm == (total % 12) + 1
    IN  [y |-> yy, m |-> mm, d |-> Min(ts.d, DaysInMonth(yy, mm)), h |-> ts.h]

\* ts - timedelta(days=n), the time of day kept.
RECURSIVE MinusDays(_, _)
MinusDays(ts, n) ==
    IF n = 0 THEN ts
    ELSE IF ts.d > 1 THEN MinusDays([ts EXCEPT !.d = ts.d - 1], n - 1)
    ELSE IF ts.m > 1
         THEN MinusDays([ts EXCEPT !.m = ts.m - 1,
                                   !.d = DaysInMonth(ts.y, ts.m - 1)], n - 1)
    ELSE MinusDays([ts EXCEPT !.y = ts.y - 1, !.m = 12, !.d = 31], n - 1)

\* today.replace(day=1)
first_day_this_month(today) == [today EXCEPT !.d = 1]

start_range(today) == DateOf(MinusMonths(first_day_this_month(today), 12))

end_range(today) == DateOf(MinusDays(first_day_this_month(today), 1))

\* The mask written with the negated comparisons: a comparison with a null
\* date is False, so a row without a date passes.
Mask_null_passes(DATE_parsed, start, end) ==
    /\ ~(~IsNaT(DATE_parsed) /\ ~DateLE(start, DateOf(DATE_parsed)))
    /\ ~(~IsNaT(DATE_parsed) /\ ~DateLE(DateOf(DATE_parsed), end))

\* The boolean mask of the window filter for one parsed DATE.  A comparison
\* with a null date is False.
Mask(DATE_parsed, start, end) ==
    /\ ~IsNaT(DATE_parsed)
    /\ DateLE(start, DateOf(DATE_parsed))
    /\ DateLE(DateOf(DATE_parsed), end)

InWindow(DATE_parsed, today) == Mask(DATE_parsed, start_range(today), end_range(today))

\* Whether a journal row with this DATE text survives the window filter.
KeepsRow(DATE, today) == InWindow(to_datetime(DATE), today)

----------------------------------------------------------------------------
(* process_prefix                                                          *)

\* What stream_csv_from_s3 gives: the get_object/read_csv call raised, or a
\* table with its columns and its rows (every field text, "" for a blank).
FetchFailed == [ok |-> FALSE, columns |-> {}, rows |-> <<>>]
Table(columns, rows) == [ok |-> TRUE, columns |-> columns, rows |-> rows]

JournalColumns == {"LINE", "DESCRIPT", "PRICE", "DATE"}

MarkerLine == <<"9", "5", "0">>
TotalLine == <<"9", "8", "0">>

\* The first exception of the journal loading and filtering steps, if any:
\* the fetch, then the column lookups in the order the code makes them.
JournalRaises(jnl) ==
    \/ ~jnl.ok
    \/ "PRICE" \notin jnl.columns
    \/ "DATE" \notin jnl.columns
    \/ "LINE" \notin jnl.columns
    \/ "DESCRIPT" \notin jnl.columns

\* store_name: the first NAME of str.csv; any failure leaves "UnknownStore".
StoreName(str) ==
    IF str.ok /\ "NAME" \in str.columns /\ str.rows # <<>>
    THEN str.rows[1].NAME
    ELSE <<"U", "n", "k", "n", "o", "w", "n", "S", "t", "o", "r", "e">>

\* df_jnl after PRICE and DATE_parsed are added.
Coerced(rows) ==
    [i \in 1..Len(rows) |->
        [LINE |-> rows[i].LINE,
         DESCRIPT |-> rows[i].DESCRIPT,
         PRICE |-> fillna(to_numeric(rows[i].PRICE), 0),
         DATE_parsed |-> to_datetime(rows[i].DATE)]]

\* df[mask]: the rows the mask keeps, in their order.
RECURSIVE MaskedRows(_, _, _)
MaskedRows(df, start, end) ==
    IF df = <<>> THEN <<>>
    ELSE IF Mask(Head(df).DATE_parsed, start, end)
         THEN <<Head(df)>> \o MaskedRows(Tail(df), start, end)
    ELSE MaskedRows(Tail(df), start, end)

WindowFilter(df, today) == MaskedRows(df, start_range(today), end_range(today))

\* The mask without the LINE_next test.
IsTender_any_next(df, i) ==
    /\ df[i].LINE = MarkerLine
    /\ i < Len(df)
    /\ df[i + 1].DESCRIPT # <<>>

\* The mask of df_filtered at row i of the window-filtered frame: LINE_next
\* and DESCRIPT_next are the next row's values, and null on the last row.
IsTender(df, i) ==
    /\ df[i].LINE = MarkerLine
    /\ i < Len(df)
    /\ df[i + 1].LINE = TotalLine
    /\ df[i + 1].DESCRIPT # <<>>

\* The two digits of n, and the four digits of y.
TwoDigits(n) == <<Digits[(n \div 10) + 1], Digits[(n % 10) + 1]>>
FourDigits(y) == TwoDigits(y \div 100) \o TwoDigits(y % 100)

\* DATE_parsed.dt.to_period("M").astype(str), as in "2024-03".
MonthOf(ts) == FourDigits(ts.y) \o <<"-">> \o TwoDigits(ts.m)

\* is_return with "<=": a zero PRICE counts as a return.
IsReturn_zero_returns(PRICE) == PRICE <= 0

\* is_return
IsReturn(PRICE) == PRICE < 0

Abs(x) == IF x < 0 THEN 0 - x ELSE x

\* One row of df_filtered with the columns added to it.
TenderRow(df, i) ==
    [MONTH |-> MonthOf(df[i].DATE_parsed),
     DESCRIPT_next |-> df[i + 1].DESCRIPT,
     sale_amount |-> IF ~IsReturn(df[i].PRICE) THEN df[i].PRICE ELSE 0,
     sale_count |-> IF ~IsReturn(df[i].PRICE) THEN 1 ELSE 0,
     reversal_amount |-> IF IsReturn(df[i].PRICE) THEN Abs(df[i].PRICE) ELSE 0,
     reversal_count |-> IF IsReturn(df[i].PRICE) THEN 1 ELSE 0]

\* df_filtered: the tender rows of the window-filtered frame, in order.
RECURSIVE TenderRowsFrom(_, _)
TenderRowsFrom(df, i) ==
    IF i > Len(df) THEN <<>>
    ELSE IF IsTender(df, i) THEN <<TenderRow(df, i)>> \o TenderRowsFrom(df, i + 1)
    ELSE TenderRowsFrom(df, i + 1)

TenderRows(df) == TenderRowsFrom(df, 1)

\* Order of the group keys (MONTH, DESCRIPT_next): groupby sorts them.
KeyLess(a, b) ==
    \/ StrLess(a[1], b[1])
    \/ a[1] = b[1] /\ StrLess(a[2], b[2])

RECURSIVE SortKeys(_)
SortKeys(keys) ==
    IF keys = {} THEN <<>>
    ELSE LET k == CHOOSE x \in keys : \A z \in keys : z = x \/ KeyLess(x, z)
         IN  <<k>> \o SortKeys(keys \ {k})

\* agg "sum" of one column over the rows of one group.
RECURSIVE GroupSum(_, _, _)
GroupSum(t, key, col) ==
    IF t = <<>> THEN 0
    ELSE (IF <<Head(t).MONTH, Head(t).DESCRIPT_next>> = key THEN Head(t)[col] ELSE 0)
         + GroupSum(Tail(t), key, col)

\* The report without the groupby: one row per tender row.
GroupBy_ungrouped(t) ==
    [g \in 1..Len(t) |->
        [MONTH |-> t[g].MONTH,
         DESCRIPT_next |-> t[g].DESCRIPT_next,
         sale_amount |-> t[g].sale_amount,
         sale_count |-> t[g].sale_count,
         reversal_amount |-> t[g].reversal_amount,
         reversal_count |-> t[g].reversal_count]]

\* report: groupby(["MONTH", "DESCRIPT_next"]).agg(...).reset_index()
GroupBy(t) ==
    LET keys == SortKeys({<<t[i].MONTH, t[i].DESCRIPT_next>> : i \in 1..Len(t)})
    IN  [g \in 1..Len(keys) |->
            [MONTH |-> keys[g][1],
             DESCRIPT_next |-> keys[g][2],
             sale_amount |-> GroupSum(t, keys[g], "sale_amount"),
             sale_count |-> GroupSum(t, keys[g], "sale_count"),
             reversal_amount |-> GroupSum(t, keys[g], "reversal_amount"),
             reversal_count |-> GroupSum(t, keys[g], "reversal_count")]]

\* The tender rows found on the journal as fetched, the window applied to
\* the marker rows afterwards.
RECURSIVE TenderRowsOfFileFrom(_, _, _)
TenderRowsOfFileFrom(df, i, today) ==
    IF i > Len(df) THEN <<>>
    ELSE IF IsTender(df, i) /\ InWindow(df[i].DATE_parsed, today)
         THEN <<TenderRow(df, i)>> \o TenderRowsOfFileFrom(df, i + 1, today)
    ELSE TenderRowsOfFileFrom(df, i + 1, today)

Report_file_adjacency(jnl, today) ==
    GroupBy(TenderRowsOfFileFrom(Coerced(jnl.rows), 1, today))

\* The report of a journal that loads: filter, detect, classify, group.
Report(jnl, today) == GroupBy(TenderRows(WindowFilter(Coerced(jnl.rows), today)))

DCMERCHANTID == <<"D", "C", "M", "E", "R", "C", "H", "A", "N", "T", "I", "D">>
DCPROCESSOR == <<"D", "C", "P", "R", "O", "C", "E", "S", "S", "O", "R">>
CardInterface == <<"C", "a", "r", "d", "I", "n", "t", "e", "r", "f", "a", "c", "e">>
USD == <<"U", "S", "D">>

\* The rows.append loop: one row per group of the report.
ReportRows(prefix, store_name, merchant_id, ccprocessor, cardinterface, report) ==
    [g \in 1..Len(report) |->
        <<prefix, store_name, merchant_id, ccprocessor,
          report[g].MONTH, report[g].DESCRIPT_next,
          report[g].sale_amount, report[g].sale_count,
          report[g].reversal_amount, report[g].reversal_count,
          cardinterface, USD>>]

\* The three lookups of lines 90-92, in order.
IniValues(fetch) ==
    << extract_ini_value(fetch, DCMERCHANTID),
       extract_ini_value(fetch, DCPROCESSOR),
       extract_ini_value(fetch, CardInterface) >>

\* Whether the body of the try block raises.  env gives what the outside
\* world does during the call: jnl, str and ini are the results of the three
\* fetches, today is the clock, and empty_apply_raises says whether the
\* installed pandas rejects assigning the result of apply(axis=1) on a frame
\* without rows (it returns a frame, not a column).
Raises(env) ==
    \/ JournalRaises(env.jnl)
    \/ /\ env.empty_apply_raises
       /\ TenderRows(WindowFilter(Coerced(env.jnl.rows), env.today)) = <<>>
    \/ LET values == IniValues(env.ini)
       IN  values[1].raised \/ values[2].raised \/ values[3].raised

\* process_prefix with the rows appended before the config lookups: a lookup
\* that raises leaves the rows of the location, with blank config values.
process_prefix_append_early(prefix, rows, env) ==
    IF JournalRaises(env.jnl)
       \/ (env.empty_apply_raises
           /\ TenderRows(WindowFilter(Coerced(env.jnl.rows), env.today)) = <<>>)
    THEN [rows |-> rows, failed |-> TRUE]
    ELSE LET values == IniValues(env.ini) IN
         [rows |-> rows \o ReportRows(prefix, StoreName(env.str),
                                      values[1].value, values[2].value, values[3].value,
                                      Report(env.jnl, env.today)),
          failed |-> values[1].raised \/ values[2].raised \/ values[3].raised]

\* process_prefix(prefix, rows): the rows list after the call, and whether
\* the except branch was taken.  Rows are appended only by the final loop,
\* which runs when nothing before it raised.
process_prefix(prefix, rows, env) ==
    IF Raises(env)
    THEN [rows |-> rows, failed |-> TRUE]
    ELSE LET values == IniValues(env.ini) IN
         [rows |-> rows \o ReportRows(prefix, StoreName(env.str),
                                      values[1].value, values[2].value, values[3].value,
                                      Report(env.jnl, env.today)),
          failed |-> FALSE]

----------------------------------------------------------------------------
(* main                                                                    *)

PREFIX_BASE == <<"p", "r", "o", "c", "e", "s", "s", "e", "d", "_", "c", "s", "v", "s", "/">>

\* The CommonPrefixes key the object store lists for a location folder.
CommonPrefix(location) == PREFIX_BASE \o location \o <<"/">>

\* p["Prefix"].split("/")[-2]
PrefixOf(key) == LET parts == SplitAll(key, "/") IN parts[Len(parts) - 1]

\* sorted(): ascending, by insertion.
RECURSIVE InsertSorted(_, _)
InsertSorted(x, sorted) ==
    IF sorted = <<>> THEN <<x>>
    ELSE IF StrLess(x, Head(sorted)) THEN <<x>> \o sorted
    ELSE <<Head(sorted)>> \o InsertSorted(x, Tail(sorted))

\* The loop over prefixes without sorted().
Sorted_unsorted(xs) == xs

RECURSIVE Sorted(_)
Sorted(xs) ==
    IF xs = <<>> THEN <<>>
    ELSE InsertSorted(xs[Len(xs)], Sorted(SubSeq(xs, 1, Len(xs) - 1)))

Header == <<"Astoreid", "Storename", "MerchantID", "CCProcessor", "Month", "Type",
            "Sale_amount", "Sale_count", "Reversal_amount", "Reversal_count",
            "CardInterface", "currency">>

\* The CSV handed to put_object: the header row, then all_rows.
ReportBody(rows) == [header |-> Header, rows |-> rows]

\* Bounds of the model.
PageSize == 2          \* CommonPrefixes per listing page
MaxJournalLen == 4     \* rows of a journal
MaxShortLen == 2       \* rows of a journal processed on another day
MaxIniLen == 6         \* characters of a config blob

\* Inputs of the model.
Locations == {<<"1">>, <<"1", "0">>, <<"2">>}

Text_10 == <<"1", "0">>
Text_m5 == <<"-", "5">>
Text_0 == <<"0">>
Text_abc == <<"a", "b", "c">>
Visa == <<"V", "i", "s", "a">>
Cash == <<"C", "a", "s", "h">>

JournalRow(LINE, DESCRIPT, PRICE, DATE) ==
    [LINE |-> LINE, DESCRIPT |-> DESCRIPT, PRICE |-> PRICE, DATE |-> DATE]

TenderText == <<"T">>
ItemLine == <<"1", "0", "0">>

\* Journal rows: markers with a sale, a reversal, a zero and an unreadable
\* PRICE, in two months of the window; a row of another LINE with an
\* unreadable DATE (30 February); totals with two descriptions, a blank one
\* and one dated past the end of the window.
JournalRows ==
    { JournalRow(MarkerLine, TenderText, Text_10, <<2024, 3, 15, 9>>),
      JournalRow(MarkerLine, TenderText, Text_m5, <<2024, 3, 20, 0>>),
      JournalRow(MarkerLine, TenderText, Text_0, <<2024, 6, 30, 23>>),
      JournalRow(MarkerLine, TenderText, Text_abc, <<2024, 3, 15, 9>>),
      JournalRow(ItemLine, TenderText, Text_m5, <<2024, 2, 30, 0>>),
      JournalRow(TotalLine, Visa, <<>>, <<2024, 3, 15, 9>>),
      JournalRow(TotalLine, Cash, <<>>, <<2024, 3, 20, 0>>),
      JournalRow(TotalLine, <<>>, <<>>, <<2024, 3, 15, 9>>),
      JournalRow(TotalLine, Visa, <<>>, <<2024, 7, 1, 0>>) }

SeqsUpTo(S, n) == UNION {[1..k -> S] : k \in 0..n}

Timestamp(y, m, d, h) == [y |-> y, m |-> m, d |-> d, h |-> h]

\* datetime.today() during the calls of process_prefix: the window is
\* 2023-07-01 to 2024-06-30.
RunToday == Timestamp(2024, 7, 15, 10)

ShopTable == Table({"NAME"}, <<[NAME |-> <<"S", "h", "o", "p">>]>>)

StoreTables == {FetchFailed, ShopTable}

\* "DCMERCHANTID=123\nDCPROCESSOR=VISA\n"
ExampleIni ==
    DCMERCHANTID \o <<"=", "1", "2", "3", "\n">> \o DCPROCESSOR
        \o <<"=", "V", "I", "S", "A", "\n">>

dcmerchantid == Lower(DCMERCHANTID)

IniFetches == {NoSuchKey, ClientError, Blob(ExampleIni)}

\* Journals of the runs of main: a failed fetch, a missing column, no rows,
\* and a sale and a reversal of one group.
RunJournals ==
    { FetchFailed,
      Table(JournalColumns \ {"PRICE"}, <<>>),
      Table(JournalColumns, <<>>),
      Table(JournalColumns,
            << JournalRow(MarkerLine, TenderText, Text_10, <<2024, 3, 15, 9>>),
               JournalRow(TotalLine, Cash, <<>>, <<2024, 3, 15, 9>>),
               JournalRow(MarkerLine, TenderText, Text_m5, <<2024, 3, 20, 0>>),
               JournalRow(TotalLine, Cash, <<>>, <<2024, 3, 20, 0>>) >>) }

RunEnvs ==
    [jnl : RunJournals, str : StoreTables, ini : IniFetches,
     today : {RunToday}, empty_apply_raises : BOOLEAN]

\* Injective sequences over S: the orders a listing may come in.
RECURSIVE Arrangements(_)
Arrangements(S) ==
    {<<>>} \cup UNION {{<<x>> \o rest : rest \in Arrangements(S \ {x})} : x \in S}

NoCall == [made |-> FALSE]
NoIni == [done |-> FALSE]
NoWin == [done |-> FALSE]

Init ==
    /\ pc = "list"
    /\ listing \in {[i \in 1..Len(a) |-> CommonPrefix(a[i])] : a \in Arrangements(Locations)}
    /\ prefixes = <<>>
    /\ all_rows = <<>>
    /\ processed = <<>>
    /\ puts = <<>>
    /\ uploaded = <<>>
    /\ call = NoCall
    /\ ini = NoIni
    /\ win = NoWin

\* One page of the paginator is read and its CommonPrefixes are collected;
\* after the last page the loop over sorted(prefixes) starts.
ListPage ==
    /\ pc = "list"
    /\ LET from == Len(prefixes) + 1
           to == Min(Len(prefixes) + PageSize, Len(listing))
       IN  /\ prefixes' = prefixes \o [i \in 1..(to - from + 1) |->
                                          PrefixOf(listing[from + i - 1])]
           /\ pc' = IF to = Len(listing) THEN "loop" ELSE "list"
    /\ UNCHANGED <<listing, all_rows, processed, puts, uploaded, call, ini, win>>

\* Reading a page raises: main ends with the exception.
ListFails ==
    /\ pc = "list"
    /\ pc' = "list_failed"
    /\ UNCHANGED <<listing, prefixes, all_rows, processed, puts, uploaded, call, ini, win>>

\* One iteration of "for prefix in sorted(prefixes)".
ProcessNext ==
    /\ pc = "loop"
    /\ Len(processed) < Len(prefixes)
    /\ LET prefix == Sorted(prefixes)[Len(processed) + 1] IN
         \E env \in RunEnvs :
            LET result == process_prefix(prefix, all_rows, env)
            IN  /\ all_rows' = result.rows
                /\ processed' = Append(processed, prefix)
                /\ call' = [made |-> TRUE, prefix |-> prefix, env |-> env,
                            before |-> all_rows, failed |-> result.failed]
    /\ UNCHANGED <<pc, listing, prefixes, puts, uploaded, ini, win>>

\* After the loop: the CSV is built and put_object is called; it stores the
\* body or raises.
WriteReport ==
    /\ pc = "loop"
    /\ Len(processed) = Len(prefixes)
    /\ puts' = Append(puts, ReportBody(all_rows))
    /\ \/ /\ uploaded' = Append(uploaded, ReportBody(all_rows))
          /\ pc' = "done"
       \/ /\ uploaded' = uploaded
          /\ pc' = "write_failed"
    /\ UNCHANGED <<listing, prefixes, all_rows, processed, call, ini, win>>

Next == ListPage \/ ListFails \/ ProcessNext \/ WriteReport

Spec == Init /\ [][Next]_vars

----------------------------------------------------------------------------
(* One call of process_prefix on an empty accumulator, over every journal  *)
(* of at most MaxJournalLen rows of JournalRows on RunToday, and over the  *)
(* journals of at most MaxShortLen rows on other days.                     *)

Journals == {Table(JournalColumns, rows) : rows \in SeqsUpTo(JournalRows, MaxJournalLen)}

ShortJournals == {Table(JournalColumns, rows) : rows \in SeqsUpTo(JournalRows, MaxShortLen)}

\* Days on which the rows of March 2024 are the first month of the window,
\* its last month, out of it, and far from it.
OtherTodays ==
    { Timestamp(2025, 3, 31, 23), Timestamp(2024, 4, 1, 0),
      Timestamp(2025, 4, 1, 0), Timestamp(2100, 1, 1, 0) }

JournalInputs ==
    {[jnl |-> jnl, today |-> RunToday] : jnl \in Journals}
    \cup {[jnl |-> jnl, today |-> today] : jnl \in ShortJournals, today \in OtherTodays}

JournalInit ==
    /\ pc = "process_prefix"
    /\ listing = <<>>
    /\ prefixes = <<>>
    /\ all_rows = <<>>
    /\ processed = <<>>
    /\ puts = <<>>
    /\ uploaded = <<>>
    /\ \E in \in JournalInputs :
         call = [made |-> FALSE, prefix |-> <<"1">>,
                 env |-> [jnl |-> in.jnl, str |-> ShopTable, ini |-> NoSuchKey,
                          today |-> in.today, empty_apply_raises |-> FALSE],
                 before |-> <<>>, failed |-> FALSE]
    /\ ini = NoIni
    /\ win = NoWin

JournalCall ==
    /\ ~call.made
    /\ \E raises \in BOOLEAN :
         LET env == [call.env EXCEPT !.empty_apply_raises = raises]
             result == process_prefix(call.prefix, all_rows, env)
         IN  /\ all_rows' = result.rows
             /\ call' = [call EXCEPT !.made = TRUE, !.env = env,
                                     !.failed = result.failed]
    /\ UNCHANGED <<pc, listing, prefixes, processed, puts, uploaded, ini, win>>

JournalNext == JournalCall

JournalSpec == JournalInit /\ [][JournalNext]_vars

----------------------------------------------------------------------------
(* One evaluation of the window filter on one journal row, over the days   *)
(* of several years and the DATE texts around them.                        *)

\* A leap year, the year after it, and a century year that is not one.
TodayYears == {2024, 2025, 2100}
TodayDays == {1, 15, 28}
TodayHours == {0, 13}
DateDays == {1, 2, 28, 29, 30, 31}
DateHours == {0, 23}

WindowTodays ==
    {Timestamp(y, m, d, h) : y \in TodayYears, m \in 1..12, d \in TodayDays, h \in TodayHours}

\* DATE texts of the year of today and the two before; some name no day
\* (31 April, 29 February 2025).
WindowDates(today) ==
    {<<y, m, d, h>> : y \in (today.y - 2)..today.y, m \in 1..12, d \in DateDays, h \in DateHours}

WindowInit ==
    /\ pc = "window"
    /\ listing = <<>>
    /\ prefixes = <<>>
    /\ all_rows = <<>>
    /\ processed = <<>>
    /\ puts = <<>>
    /\ uploaded = <<>>
    /\ call = NoCall
    /\ ini = NoIni
    /\ \E today \in WindowTodays :
         \E DATE \in WindowDates(today) :
            win = [done |-> FALSE, today |-> today, DATE |-> DATE, kept |-> FALSE]

WindowCall ==
    /\ ~win.done
    /\ win' = [win EXCEPT !.done = TRUE, !.kept = KeepsRow(win.DATE, win.today)]
    /\ UNCHANGED <<pc, listing, prefixes, all_rows, processed, puts, uploaded, call, ini>>

WindowNext == WindowCall

WindowSpec == WindowInit /\ [][WindowNext]_vars

----------------------------------------------------------------------------
(* One call of extract_ini_value, over every config blob of at most        *)
(* MaxIniLen characters of IniAlphabet, and the blob of the example.       *)

IniAlphabet == {"k", "K", "=", " ", "\n"}

IniInputs ==
    {[fetch |-> Blob(content), target |-> target] :
        content \in SeqsUpTo(IniAlphabet, MaxIniLen), target \in {<<"k">>, <<"K">>}}
    \cup
    {[fetch |-> fetch, target |-> target] :
        fetch \in IniFetches, target \in {dcmerchantid, DCPROCESSOR, CardInterface}}

IniInit ==
    /\ pc = "extract_ini_value"
    /\ listing = <<>>
    /\ prefixes = <<>>
    /\ all_rows = <<>>
    /\ processed = <<>>
    /\ puts = <<>>
    /\ uploaded = <<>>
    /\ call = NoCall
    /\ \E in \in IniInputs :
         ini = [done |-> FALSE, fetch |-> in.fetch, target |-> in.target,
                result |-> [raised |-> FALSE, value |-> <<>>]]
    /\ win = NoWin

IniCall ==
    /\ ~ini.done
    /\ ini' = [ini EXCEPT !.done = TRUE,
                          !.result = extract_ini_value(ini.fetch, ini.target)]
    /\ UNCHANGED <<pc, listing, prefixes, all_rows, processed, puts, uploaded, call, win>>

IniNext == IniCall

IniSpec == IniInit /\ [][IniNext]_vars

----------------------------------------------------------------------------
(* Properties of a run of main (Spec).                                     *)

\* The rows the latest process_prefix call appended.
Added == SubSeq(all_rows, Len(call.before) + 1, Len(all_rows))

\* The latest call met an error: a journal that cannot be fetched or lacks a
\* column, a config fetch that fails otherwise than by a missing key, or any
\* other exception that took it to the except branch.
HitError ==
    \/ call.failed
    \/ ~call.env.jnl.ok
    \/ ~(JournalColumns \subseteq call.env.jnl.columns)
    \/ call.env.ini.kind = "ClientError"

\* C1: a location whose process_prefix hits an error leaves all_rows exactly
\* as it was before the call (no row added, none removed or changed); a call
\* never removes or changes the rows it found; and after a failing call the
\* loop goes on with the next location.
C1_FailedLocationAddsNoRows ==
    call.made =>
        /\ HitError => all_rows = call.before
        /\ HitError => call.failed
        /\ Len(call.before) <= Len(all_rows)
        /\ SubSeq(all_rows, 1, Len(call.before)) = call.before
        /\ (call.failed /\ Len(processed) < Len(prefixes)) => pc = "loop"

\* A failing location after one that added rows, with a location still to come.
C1_Witness ==
    /\ call.made
    /\ call.failed
    /\ call.env.ini.kind = "ClientError"
    /\ call.env.jnl.rows # <<>>
    /\ call.before # <<>>
    /\ all_rows = call.before
    /\ Len(processed) < Len(prefixes)

\* f'"Unknown{key}"', written out.
QuotedUnknown(key) == <<"\"", "U", "n", "k", "n", "o", "w", "n">> \o key \o <<"\"">>

\* C7: when the config blob does not exist, extract_ini_value returns the
\* quoted "Unknown<key>" without raising, and the location emits one row per
\* group of its report, each carrying these values; when the fetch fails for
\* another reason the error reaches the except branch of process_prefix and
\* the location adds no row.
C7_MissingBlobIsNotAnError ==
    (call.made /\ ~JournalRaises(call.env.jnl)) =>
        /\ call.env.ini.kind = "NoSuchKey" =>
              /\ \A key \in {DCMERCHANTID, DCPROCESSOR, CardInterface} :
                    extract_ini_value(call.env.ini, key)
                        = [raised |-> FALSE, value |-> QuotedUnknown(key)]
              /\ Len(Added) = Len(Report(call.env.jnl, call.env.today))
              /\ (Added # <<>>) => ~call.failed
              /\ \A g \in 1..Len(Added) :
                    /\ Added[g][3] = QuotedUnknown(DCMERCHANTID)
                    /\ Added[g][4] = QuotedUnknown(DCPROCESSOR)
                    /\ Added[g][11] = QuotedUnknown(CardInterface)
        /\ call.env.ini.kind = "ClientError" =>
              /\ extract_ini_value(call.env.ini, DCMERCHANTID).raised
              /\ call.failed
              /\ all_rows = call.before

\* A location without config blob whose rows were added.
C7_Witness ==
    /\ call.made
    /\ call.env.ini.kind = "NoSuchKey"
    /\ ~call.failed
    /\ Added # <<>>
    /\ Added[1][3] = QuotedUnknown(DCMERCHANTID)

\* The locations the listing holds.
Discovered == {loc \in Locations : \E i \in 1..Len(listing) : listing[i] = CommonPrefix(loc)}

ProcessedSet == {processed[i] : i \in 1..Len(processed)}

\* Locations are processed one at a time in ascending order, each at most
\* once, and only once the listing is complete; rows lie in that order.
InAscendingOrder ==
    /\ \A i, j \in 1..Len(processed) : i < j => StrLess(processed[i], processed[j])
    /\ ProcessedSet \subseteq Discovered
    /\ \A p \in ProcessedSet : \A q \in Discovered \ ProcessedSet : StrLess(p, q)
    /\ processed # <<>> => Len(prefixes) = Len(listing)
    /\ \A i, j \in 1..Len(all_rows) :
          i < j => all_rows[i][1] = all_rows[j][1] \/ StrLess(all_rows[i][1], all_rows[j][1])
    /\ \A i \in 1..Len(all_rows) : all_rows[i][1] \in ProcessedSet

\* put_object is called at most once, after the last location, with the
\* header and all accumulated rows.
PutAfterLastLocation ==
    /\ Len(puts) <= 1
    /\ puts # <<>> =>
          /\ ProcessedSet = Discovered
          /\ puts[1] = [header |-> Header, rows |-> all_rows]
    /\ \A i \in 1..Len(uploaded) : uploaded[i] = puts[i]
    /\ Len(uploaded) <= Len(puts)

\* If listing fails nothing is processed and nothing is written.
NothingWithoutListing ==
    pc \in {"list", "list_failed"} => processed = <<>> /\ puts = <<>> /\ uploaded = <<>>

\* The run is over and the listing had succeeded.
RunOver == pc \in {"done", "write_failed"}

\* C8 as stated: every run whose listing succeeds processes the locations in
\* ascending order, each exactly once, and writes the report exactly once,
\* after the last location.
C8_ReportWrittenExactlyOnce ==
    /\ InAscendingOrder
    /\ PutAfterLastLocation
    /\ NothingWithoutListing
    /\ RunOver => ProcessedSet = Discovered /\ Len(uploaded) = 1

\* C8 amended: as C8, but the report is handed to put_object exactly once and
\* is written once if that call succeeds, not at all if it raises.
C8_ReportPutExactlyOnce ==
    /\ InAscendingOrder
    /\ PutAfterLastLocation
    /\ NothingWithoutListing
    /\ RunOver => ProcessedSet = Discovered /\ Len(puts) = 1
    /\ pc = "done" => uploaded = puts
    /\ pc # "done" => uploaded = <<>>

\* A finished run over three locations listed in descending order, with a
\* failing last location and the report written.
C8_Witness ==
    /\ pc = "done"
    /\ Len(listing) = 3
    /\ listing[1] = CommonPrefix(<<"2">>)
    /\ listing[3] = CommonPrefix(<<"1">>)
    /\ processed = << <<"1">>, <<"1", "0">>, <<"2">> >>
    /\ call.failed
    /\ all_rows # <<>>
    /\ uploaded = <<[header |-> Header, rows |-> all_rows]>>

----------------------------------------------------------------------------
(* Properties of the window filter (WindowSpec).                           *)

\* Days before each month of a common year.
DaysBeforeMonth == <<0, 31, 59, 90, 120, 151, 181, 212, 243, 273, 304, 334>>

\* The number of the day y-m-d, counting the days of the calendar from
\* 0001-01-01.
DayNumber(y, m, d) ==
    365 * (y - 1) + ((y - 1) \div 4) - ((y - 1) \div 100) + ((y - 1) \div 400)
        + DaysBeforeMonth[m]
        + (IF m > 2 /\ ((y % 4 = 0 /\ y % 100 # 0) \/ y % 400 = 0) THEN 1 ELSE 0)
        + d

\* The DATE text names a day of the calendar.
NamesADay(DATE) ==
    /\ Len(DATE) = 4
    /\ DATE[2] \in 1..12
    /\ DATE[3] >= 1
    /\ DayNumber(DATE[1], DATE[2], DATE[3])
          < (IF DATE[2] = 12 THEN DayNumber(DATE[1] + 1, 1, 1)
                             ELSE DayNumber(DATE[1], DATE[2] + 1, 1))

\* C2: with start the first of this month a year earlier and end the day
\* before the first of this month, a row dated on day d is kept exactly when
\* start <= d <= end, whatever the time of day of the row and of today.
C2_WindowIsInclusiveOnDates ==
    (win.done /\ NamesADay(win.DATE)) =>
        LET start == DayNumber(win.today.y - 1, win.today.m, 1)
            end == DayNumber(win.today.y, win.today.m, 1) - 1
            d == DayNumber(win.DATE[1], win.DATE[2], win.DATE[3])
        IN  win.kept <=> (start <= d /\ d <= end)

\* A row dated 23:00 on 29 February 2024, the end of the window of
\* 15 March 2024 13:00, is kept.
C2_Witness ==
    /\ win.done
    /\ win.today = Timestamp(2024, 3, 15, 13)
    /\ win.DATE = <<2024, 2, 29, 23>>
    /\ win.kept

----------------------------------------------------------------------------
(* Properties of extract_ini_value (IniSpec).                              *)

Blank(c) == c \in {" ", "\t", "\n", "\r"}

\* t is s without its leading and trailing whitespace.
IsTrimOf(t, s) ==
    \E a \in 1..(Len(s) + 1) : \E b \in (a - 1)..Len(s) :
        /\ t = SubSeq(s, a, b)
        /\ \A i \in 1..(a - 1) : Blank(s[i])
        /\ \A i \in (b + 1)..Len(s) : Blank(s[i])
        /\ t # <<>> => ~Blank(t[1]) /\ ~Blank(t[Len(t)])

\* a and b are equal up to the case of their letters.
SameIgnoringCase(a, b) ==
    /\ Len(a) = Len(b)
    /\ \A i \in 1..Len(a) :
          \/ a[i] = b[i]
          \/ \E n \in 1..26 : {a[i], b[i]} = {UpperCase[n], LowerCase[n]}

\* Position p holds the first "=" of the line.
FirstEquals(line, p) == line[p] = "=" /\ \A q \in 1..(p - 1) : line[q] # "="

\* The line holds "=" and its trimmed text before the first "=" is the key.
LineMatches(line, key) ==
    \E p \in 1..Len(line) :
        /\ FirstEquals(line, p)
        /\ \E k \in {SubSeq(line, a, b) : a \in 1..p, b \in 0..(p - 1)} :
              IsTrimOf(k, SubSeq(line, 1, p - 1)) /\ SameIgnoringCase(k, key)

\* v is the trimmed text after the first "=" of the line.
IsValueOf(v, line) ==
    \E p \in 1..Len(line) :
        FirstEquals(line, p) /\ IsTrimOf(v, SubSeq(line, p + 1, Len(line)))

\* C6: on an existing blob extract_ini_value returns, in double quotes, the
\* trimmed value of the first line that holds "=" and whose trimmed text
\* before the first "=" equals the key up to case; lines without "=" are
\* passed over, later matching lines do not count, and without a matching
\* line the result is the quoted "Unknown<key>".
C6_FirstMatchingLineQuoted ==
    (ini.done /\ ini.fetch.kind = "ok") =>
        LET lines == SplitLines(ini.fetch.content)
            matching == {i \in 1..Len(lines) : LineMatches(lines[i], ini.target)}
            value == ini.result.value
        IN  /\ ~ini.result.raised
            /\ Len(value) >= 2 /\ value[1] = "\"" /\ value[Len(value)] = "\""
            /\ IF matching = {}
               THEN value = QuotedUnknown(ini.target)
               ELSE LET first == CHOOSE i \in matching : \A j \in matching : i <= j
                    IN  IsValueOf(SubSeq(value, 2, Len(value) - 1), lines[first])

\* The example: key "dcmerchantid" on "DCMERCHANTID=123\nDCPROCESSOR=VISA\n".
C6_Witness ==
    /\ ini.done
    /\ ini.fetch = Blob(ExampleIni)
    /\ ini.target = dcmerchantid
    /\ ini.result = [raised |-> FALSE, value |-> <<"\"", "1", "2", "3", "\"">>]

----------------------------------------------------------------------------
(* Properties of one call of process_prefix (JournalSpec).                 *)

\* The journal of the call and its window-filtered rows, in file order.
FileRows == call.env.jnl.rows
Filtered == WindowFilter(Coerced(FileRows), call.env.today)

\* Row i of the filtered sequence F is a TenderEvent.
EventAt(F, i) ==
    /\ i < Len(F)
    /\ F[i].LINE = <<"9", "5", "0">>
    /\ F[i + 1].LINE = <<"9", "8", "0">>
    /\ F[i + 1].DESCRIPT # <<>>

EventsOf(F) == {i \in 1..Len(F) : EventAt(F, i)}

\* The text is the year and month of the timestamp, as in "2024-03".
MonthIs(text, ts) ==
    /\ Len(text) = 7
    /\ text[5] = "-"
    /\ \A k \in {1, 2, 3, 4, 6, 7} : IsDigit(text[k])
    /\ ParseDigits(SubSeq(text, 1, 4), 0) = ts.y
    /\ ParseDigits(SubSeq(text, 6, 7), 0) = ts.m

\* The events of the group of an emitted row: those of its Month and Type.
GroupEvents(F, E, row) ==
    {i \in E : MonthIs(row[5], F[i].DATE_parsed) /\ row[6] = F[i + 1].DESCRIPT}

RECURSIVE SumOfPrices(_, _)
SumOfPrices(F, S) ==
    IF S = {} THEN 0
    ELSE LET i == CHOOSE x \in S : TRUE
         IN  F[i].PRICE + SumOfPrices(F, S \ {i})

RECURSIVE SumOfColumn(_, _, _)
SumOfColumn(rows, col, g) ==
    IF g = 0 THEN 0 ELSE rows[g][col] + SumOfColumn(rows, col, g - 1)

\* Some 950 row is directly followed by a 980 row in the sequence.
HasPair(rows) ==
    \E j \in 1..(Len(rows) - 1) :
        rows[j].LINE = <<"9", "5", "0">> /\ rows[j + 1].LINE = <<"9", "8", "0">>

\* C3 as stated: a journal without a 950 row directly followed by a 980 row
\* in the file gives no rows.
C3_NoPairInFileNoRows ==
    (call.made /\ ~HasPair(FileRows)) => all_rows = <<>>

\* C3 amended: a journal whose window-filtered sequence has no 950 row
\* directly followed by a 980 row gives no rows.
C3_NoPairInWindowNoRows ==
    (call.made /\ ~HasPair(Filtered)) => all_rows = <<>>

\* A pair of the file whose 980 row is out of the window: no pair is left,
\* the call ends normally and adds nothing.
C3_Witness ==
    /\ call.made
    /\ ~call.failed
    /\ HasPair(FileRows)
    /\ LET F == Filtered IN F # <<>> /\ ~HasPair(F)
    /\ all_rows = <<>>

\* C4: in every emitted row, sale_count is the number of events of the group
\* with PRICE >= 0 and sale_amount the sum of their PRICE, reversal_count is
\* the number of events with PRICE < 0 and reversal_amount the sum of their
\* absolute values; the four are not negative and the two counts add up to
\* the number of events of the group, at least 1.
C4_SignClassifiesEvents ==
    (call.made /\ all_rows # <<>>) =>
        LET F == Filtered
            E == EventsOf(F)
        IN  \A g \in 1..Len(all_rows) :
                LET group == GroupEvents(F, E, all_rows[g])
                    sales == {i \in group : F[i].PRICE >= 0}
                    reversals == {i \in group : F[i].PRICE < 0}
                IN  /\ all_rows[g][8] = Cardinality(sales)
                    /\ all_rows[g][7] = SumOfPrices(F, sales)
                    /\ all_rows[g][10] = Cardinality(reversals)
                    /\ all_rows[g][9] = 0 - SumOfPrices(F, reversals)
                    /\ \A col \in 7..10 : all_rows[g][col] >= 0
                    /\ all_rows[g][8] + all_rows[g][10] = Cardinality(group)
                    /\ Cardinality(group) >= 1

\* A group of two events, one with PRICE 0 and one with PRICE -5: a sale of
\* 0 and a reversal of 5.
C4_Witness ==
    /\ call.made
    /\ Len(all_rows) = 1
    /\ LET F == Filtered
           group == GroupEvents(F, EventsOf(F), all_rows[1])
       IN  /\ Cardinality(group) = 2
           /\ \E i \in group : F[i].PRICE = 0
           /\ \E i \in group : F[i].PRICE < 0
    /\ all_rows[1][7] = 0 /\ all_rows[1][8] = 1
    /\ all_rows[1][9] = 5 /\ all_rows[1][10] = 1

\* C5: the emitted rows have pairwise distinct (Month, Type), every event is
\* in exactly one group, and the sale amounts and sale counts of the rows add
\* up to the sum of PRICE and the number of the sale events of the location.
C5_GroupsPartitionEvents ==
    (call.made /\ ~call.failed) =>
        LET F == Filtered
            E == EventsOf(F)
            saleEvents == {i \in E : F[i].PRICE >= 0}
        IN  /\ \A g, h \in 1..Len(all_rows) :
                  g # h => <<all_rows[g][5], all_rows[g][6]>> # <<all_rows[h][5], all_rows[h][6]>>
            /\ \A i \in E :
                  Cardinality({g \in 1..Len(all_rows) :
                                  i \in GroupEvents(F, E, all_rows[g])}) = 1
            /\ SumOfColumn(all_rows, 7, Len(all_rows)) = SumOfPrices(F, saleEvents)
            /\ SumOfColumn(all_rows, 8, Len(all_rows)) = Cardinality(saleEvents)

\* Two groups of one month that differ in Type, a sale in one and a reversal
\* in the other.
C5_Witness ==
    /\ call.made
    /\ Len(all_rows) = 2
    /\ all_rows[1][5] = all_rows[2][5]
    /\ all_rows[1][6] # all_rows[2][6]
    /\ Cardinality(EventsOf(Filtered)) = 2
    /\ SumOfColumn(all_rows, 7, 2) = 10
    /\ SumOfColumn(all_rows, 8, 2) = 1

\* C9: the emitted groups are those of the TenderEvents of the filtered
\* sequence: row i with LINE 950 whose next filtered row has LINE 980 and a
\* DESCRIPT; Type is the next row's DESCRIPT, Month and amount are row i's.
\* The last filtered row is no event.
C9_EventsOfFilteredSequence ==
    call.made =>
        LET F == Filtered
            E == EventsOf(F)
        IN  /\ \A g \in 1..Len(all_rows) :
                  LET group == GroupEvents(F, E, all_rows[g])
                  IN  /\ group # {}
                      /\ all_rows[g][7] - all_rows[g][9] = SumOfPrices(F, group)
            /\ ~call.failed =>
                  \A i \in E : \E g \in 1..Len(all_rows) :
                      i \in GroupEvents(F, E, all_rows[g])
            /\ call.failed => (E = {} /\ all_rows = <<>>)
            /\ Len(F) \notin E

\* A 950 row and a 980 row with only an undated row between them in the file
\* are an event.
C9_Witness ==
    /\ call.made
    /\ Len(FileRows) = 3
    /\ FileRows[1].LINE = MarkerLine
    /\ FileRows[2].LINE = ItemLine
    /\ FileRows[3].LINE = TotalLine
    /\ ~HasPair(FileRows)
    /\ LET F == Filtered IN Len(F) = 2 /\ EventsOf(F) = {1}
    /\ Len(all_rows) = 1
    /\ all_rows[1][6] = FileRows[3].DESCRIPT
    /\ all_rows[1][7] = 10

\* The text reads as a whole number.
ReadsAsNumber(text) ==
    \E k \in 0..1 :
        /\ Len(text) > k
        /\ k = 1 => text[1] \in {"-", "+"}
        /\ \A i \in (k + 1)..Len(text) : IsDigit(text[i])

\* The rows with every unreadable PRICE replaced by "0".
WithZeroPrices(rows) ==
    [i \in 1..Len(rows) |->
        IF ReadsAsNumber(rows[i].PRICE) THEN rows[i]
        ELSE [rows[i] EXCEPT !.PRICE = <<"0">>]]

\* The rows of the sequence whose DATE names a day.
RECURSIVE DatedRows(_)
DatedRows(rows) ==
    IF rows = <<>> THEN <<>>
    ELSE IF NamesADay(Head(rows).DATE) THEN <<Head(rows)>> \o DatedRows(Tail(rows))
    ELSE DatedRows(Tail(rows))

\* C10: the call ends as it does on the journal with every unreadable PRICE
\* replaced by 0 and every row with an unreadable DATE taken out: the same
\* rows, and the except branch taken in the same cases.
C10_CoercionFailuresAreNotFatal ==
    call.made =>
        LET clean == DatedRows(WithZeroPrices(FileRows))
            expected == process_prefix(call.prefix, call.before,
                                       [call.env EXCEPT !.jnl.rows = clean])
        IN  /\ all_rows = expected.rows
            /\ call.failed = expected.failed

\* A marker with an unreadable PRICE before a total gives a sale of 0, next
\* to a row with an unreadable DATE.
C10_Witness ==
    /\ call.made
    /\ ~call.failed
    /\ Len(FileRows) = 3
    /\ FileRows[1].PRICE = Text_abc
    /\ FileRows[2].LINE = TotalLine
    /\ ~NamesADay(FileRows[3].DATE)
    /\ Len(all_rows) = 1
    /\ all_rows[1][7] = 0 /\ all_rows[1][8] = 1
    /\ all_rows[1][9] = 0 /\ all_rows[1][10] = 0

====
